---------------------------- MODULE Spec2Model ----------------------------
(***************************************************************************)
(* Model of price-history-extractor.py: the lenient object-literal         *)
(* normalizer and JSON decoding of extract_price_history_data, the         *)
(* fetcher, the CSV/JSON writer and the main procedure                     *)
(* extract_price_history, run repeatedly over one output directory.        *)
(*                                                                         *)
(* Text is a sequence of one-character strings.  A decoded JSON value is   *)
(* a record [t, n, s, a, o]: t the kind, n the integer of a number, s the  *)
(* characters of a string, a the elements of an array, o the members of    *)
(* an object in insertion order (each [k |-> key text, v |-> value]).      *)
(***************************************************************************)
EXTENDS Integers, Sequences, FiniteSets, TLC

(***************************************************************************)
(* Characters and the character classes of the regular expressions.        *)
(***************************************************************************)
Digit == {"0", "1", "2", "3", "4", "5", "6", "7", "8", "9"}

Letter == {"a", "b", "c", "d", "e", "f", "g", "h", "i", "j", "k", "l", "m",
           "n", "o", "p", "q", "r", "s", "t", "u", "v", "w", "x", "y", "z"}

\* \w of lines 39 and 60
WordChar == Letter \cup Digit \cup {"_"}

\* [a-zA-Z0-9_$] of line 93
KeyChar == Letter \cup Digit \cup {"_", "$"}

\* \s of the regular expressions, the characters str.strip() removes and the
\* whitespace json.loads skips
Space == {" ", "\n", "\t"}

\* characters json.loads rejects inside a string (strict mode)
ControlChar == {"\n", "\t"}

\* the least element of a non-empty set of integers
Min(S) == CHOOSE x \in S : \A y \in S : x <= y

\* the first index >= i of s that holds no whitespace (Len(s) + 1 if none)
SkipWs(s, i) ==
    Min({j \in i..Len(s) : s[j] \notin Space} \cup {Len(s) + 1})

\* the last index of the maximal run of characters of class cls starting at i
RunEnd(s, i, cls) ==
    Min({e \in i..Len(s) : e = Len(s) \/ s[e + 1] \notin cls})

\* the last index <= i of s that holds no whitespace (0 if none)
LastNonWs(s, i) ==
    0 - Min({0 - j : j \in {k \in 1..i : s[k] \notin Space} \cup {0}})

\* str.strip()
Strip(s) == SubSeq(s, SkipWs(s, 1), LastNonWs(s, Len(s)))

RECURSIVE Concat(_, _, _)
\* the texts ps[lo..hi] one after the other
Concat(ps, lo, hi) ==
    IF lo > hi THEN <<>>
    ELSE IF lo = hi THEN ps[lo]
    ELSE Concat(ps, lo, (lo + hi) \div 2)
             \o Concat(ps, (lo + hi) \div 2 + 1, hi)

(***************************************************************************)
(* The normalization steps.  re.sub replaces every leftmost, not           *)
(* overlapping match; each operator names the matches of its pattern and   *)
(* gives, index by index, the text that takes the character's place.       *)
(***************************************************************************)
\* The matches of (CLS+)WS*: in s, each [b, e, c]: the token s[b..e] and the
\* colon s[c].  CLS+ is greedy and no character of CLS is a colon or
\* whitespace, so a match starts where a maximal run of CLS starts; ws tells
\* whether the pattern has \s* between the token and the colon.
KeyMatches(s, cls, ws) ==
    { m \in { [b |-> i, e |-> RunEnd(s, i, cls),
               c |-> IF ws THEN SkipWs(s, RunEnd(s, i, cls) + 1)
                     ELSE RunEnd(s, i, cls) + 1] :
              i \in { j \in 1..Len(s) :
                        s[j] \in cls /\ (j = 1 \/ s[j - 1] \notin cls) } } :
        m.c <= Len(s) /\ s[m.c] = ":" }

\* re.sub(r'(CLS+)WS*:', r'"\1":', s)
QuoteKeys(s, cls, ws) ==
    LET ms == KeyMatches(s, cls, ws)
        piece(k) ==
            IF \E m \in ms : m.e < k /\ k < m.c THEN <<>>
            ELSE (IF \E m \in ms : m.b = k THEN <<"\"">> ELSE <<>>)
                     \o <<s[k]>>
                     \o (IF \E m \in ms : m.e = k THEN <<"\"">> ELSE <<>>)
    IN  Concat([k \in 1..Len(s) |-> piece(k)], 1, Len(s))

\* re.sub(r'(\w+):', r'"\1":', s)
QuoteWordKeys(s) == QuoteKeys(s, WordChar, FALSE)

\* re.sub(r'([a-zA-Z0-9_$]+)\s*:', r'"\1":', s)
QuoteProductKeys(s) == QuoteKeys(s, KeyChar, TRUE)

\* s.replace("'", '"')
ReplaceQuotes(s) == [i \in 1..Len(s) |-> IF s[i] = "'" THEN "\"" ELSE s[i]]

\* re.sub(r',\s*CLOSER', 'CLOSER', s): a comma that only whitespace parts
\* from the closer goes, with that whitespace
RemoveTrailingCommas(s, closer) ==
    LET commas == { i \in 1..Len(s) :
                      /\ s[i] = ","
                      /\ SkipWs(s, i + 1) <= Len(s)
                      /\ s[SkipWs(s, i + 1)] = closer }
        piece(k) ==
            IF \E i \in commas : i <= k /\ k < SkipWs(s, i + 1) THEN <<>>
            ELSE <<s[k]>>
    IN  Concat([k \in 1..Len(s) |-> piece(k)], 1, Len(s))

\* re.sub(r':\s*WORD', ': WORD', s): the whitespace between a colon and the
\* word becomes one space
BoolSpacing(s, word) ==
    LET colons == { i \in 1..Len(s) :
                      /\ s[i] = ":"
                      /\ SkipWs(s, i + 1) + Len(word) - 1 <= Len(s)
                      /\ SubSeq(s, SkipWs(s, i + 1),
                                SkipWs(s, i + 1) + Len(word) - 1) = word }
        piece(k) ==
            IF k \in colons THEN <<":", " ">>
            ELSE IF \E i \in colons : i < k /\ k < SkipWs(s, i + 1) THEN <<>>
            ELSE <<s[k]>>
    IN  Concat([k \in 1..Len(s) |-> piece(k)], 1, Len(s))

\* lines 38-40: the chart_data literal before json.loads
NormalizeChart(raw) == ReplaceQuotes(QuoteWordKeys(Strip(raw)))

\* lines 59-61: the volume_data literal before json.loads
NormalizeVolume(raw) == ReplaceQuotes(QuoteWordKeys(Strip(raw)))

\* lines 91-102 with the trailing-comma steps of lines 97 and 99 left out
NormalizeProductKeepsCommas(raw) ==
    BoolSpacing(BoolSpacing(ReplaceQuotes(QuoteProductKeys(Strip(raw))),
                            <<"t", "r", "u", "e">>),
                <<"f", "a", "l", "s", "e">>)

\* lines 81, 91-102: the product literal before json.loads
NormalizeProduct(raw) ==
    BoolSpacing(
      BoolSpacing(
        RemoveTrailingCommas(
          RemoveTrailingCommas(ReplaceQuotes(QuoteProductKeys(Strip(raw))),
                               "}"),
          "]"),
        <<"t", "r", "u", "e">>),
      <<"f", "a", "l", "s", "e">>)

Targets == {"chart", "volume", "product"}

\* the normalization extract_price_history_data applies to each literal
Normalize(target, raw) ==
    CASE target = "chart"   -> NormalizeChart(raw)
      [] target = "volume"  -> NormalizeVolume(raw)
      [] target = "product" -> NormalizeProduct(raw)

(***************************************************************************)
(* Decoded values.                                                         *)
(***************************************************************************)
Val(t, n, s, a, o) == [t |-> t, n |-> n, s |-> s, a |-> a, o |-> o]

Null == Val("null", 0, <<>>, <<>>, <<>>)
True == Val("true", 0, <<>>, <<>>, <<>>)
False == Val("false", 0, <<>>, <<>>, <<>>)
Num(n) == Val("num", n, <<>>, <<>>, <<>>)
Str(s) == Val("str", 0, s, <<>>, <<>>)
Arr(a) == Val("arr", 0, <<>>, a, <<>>)
Obj(o) == Val("obj", 0, <<>>, <<>>, o)

\* the empty mapping {}
EmptyMap == Obj(<<>>)

Member(k, v) == [k |-> k, v |-> v]

HasKey(o, k) == \E i \in 1..Len(o) : o[i].k = k

\* dict[k] = v: a repeated key keeps its place and takes the last value
Put(o, k, v) ==
    IF HasKey(o, k)
    THEN [i \in 1..Len(o) |-> IF o[i].k = k THEN Member(k, v) ELSE o[i]]
    ELSE Append(o, Member(k, v))

\* dict[k] for a key the mapping holds
Get(o, k) == o[CHOOSE i \in 1..Len(o) : o[i].k = k].v

\* Python truthiness of a decoded value
Truthy(v) ==
    CASE v.t = "null"  -> FALSE
      [] v.t = "false" -> FALSE
      [] v.t = "true"  -> TRUE
      [] v.t = "num"   -> v.n # 0
      [] v.t = "str"   -> v.s # <<>>
      [] v.t = "arr"   -> v.a # <<>>
      [] v.t = "obj"   -> v.o # <<>>

(***************************************************************************)
(* json.loads, for documents without escapes and with integer numbers.     *)
(***************************************************************************)
Result(ok, v, p) == [ok |-> ok, v |-> v, p |-> p]

Failed == Result(FALSE, Null, 0)

DigitVal(c) ==
    CASE c = "0" -> 0 [] c = "1" -> 1 [] c = "2" -> 2 [] c = "3" -> 3
      [] c = "4" -> 4 [] c = "5" -> 5 [] c = "6" -> 6 [] c = "7" -> 7
      [] c = "8" -> 8 [] c = "9" -> 9

RECURSIVE DigitsToInt(_)
DigitsToInt(ds) ==
    IF ds = <<>> THEN 0
    ELSE 10 * DigitsToInt(SubSeq(ds, 1, Len(ds) - 1)) + DigitVal(ds[Len(ds)])

\* the index of the closing quote of a string whose text starts at i; 0 when
\* the string is not closed or holds a control character
StringEnd(s, i) ==
    LET stops == { j \in i..Len(s) : s[j] \in ControlChar \cup {"\""} }
    IN  IF stops = {} \/ s[Min(stops)] # "\"" THEN 0 ELSE Min(stops)

\* a string starting at the quote s[i]
ParseString(s, i) ==
    LET e == StringEnd(s, i + 1)
    IN  IF e = 0 THEN Failed
        ELSE Result(TRUE, Str(SubSeq(s, i + 1, e - 1)), e + 1)

\* -?(0|[1-9][0-9]*) starting at i
ParseNumber(s, i) ==
    LET neg == s[i] = "-"
        b == IF neg THEN i + 1 ELSE i
    IN  IF b > Len(s) \/ s[b] \notin Digit THEN Failed
        ELSE LET e == IF s[b] = "0" THEN b ELSE RunEnd(s, b, Digit)
                 m == DigitsToInt(SubSeq(s, b, e))
             IN  Result(TRUE, Num(IF neg THEN 0 - m ELSE m), e + 1)

StartsWith(s, i, word) ==
    /\ i + Len(word) - 1 <= Len(s)
    /\ SubSeq(s, i, i + Len(word) - 1) = word

RECURSIVE ParseValue(_, _)
RECURSIVE ParseMembers(_, _, _)
RECURSIVE ParseElements(_, _, _)

\* a value starting at or after i0
ParseValue(s, i0) ==
    LET i == SkipWs(s, i0)
    IN  IF i > Len(s) THEN Failed
        ELSE IF s[i] = "{"
        THEN LET j == SkipWs(s, i + 1)
             IN  IF j <= Len(s) /\ s[j] = "}"
                 THEN Result(TRUE, EmptyMap, j + 1)
                 ELSE ParseMembers(s, j, <<>>)
        ELSE IF s[i] = "["
        THEN LET j == SkipWs(s, i + 1)
             IN  IF j <= Len(s) /\ s[j] = "]"
                 THEN Result(TRUE, Arr(<<>>), j + 1)
                 ELSE ParseElements(s, j, <<>>)
        ELSE IF s[i] = "\"" THEN ParseString(s, i)
        ELSE IF s[i] \in Digit \cup {"-"} THEN ParseNumber(s, i)
        ELSE IF StartsWith(s, i, <<"t", "r", "u", "e">>)
        THEN Result(TRUE, True, i + 4)
        ELSE IF StartsWith(s, i, <<"f", "a", "l", "s", "e">>)
        THEN Result(TRUE, False, i + 5)
        ELSE IF StartsWith(s, i, <<"n", "u", "l", "l">>)
        THEN Result(TRUE, Null, i + 4)
        ELSE Failed

\* the members of an object from the key at i on; acc holds those before it
ParseMembers(s, i, acc) ==
    IF i > Len(s) \/ s[i] # "\"" THEN Failed
    ELSE LET k == ParseString(s, i)
         IN  IF ~k.ok THEN Failed
             ELSE LET c == SkipWs(s, k.p)
                  IN  IF c > Len(s) \/ s[c] # ":" THEN Failed
                      ELSE LET v == ParseValue(s, c + 1)
                           IN  IF ~v.ok THEN Failed
                               ELSE LET d == SkipWs(s, v.p)
                                        more == Put(acc, k.v.s, v.v)
                                    IN  IF d > Len(s) THEN Failed
                                        ELSE IF s[d] = "}"
                                        THEN Result(TRUE, Obj(more), d + 1)
                                        ELSE IF s[d] = ","
                                        THEN ParseMembers(s, SkipWs(s, d + 1),
                                                          more)
                                        ELSE Failed

\* the elements of an array from the value at i on
ParseElements(s, i, acc) ==
    LET v == ParseValue(s, i)
    IN  IF ~v.ok THEN Failed
        ELSE LET d == SkipWs(s, v.p)
                 more == Append(acc, v.v)
             IN  IF d > Len(s) THEN Failed
                 ELSE IF s[d] = "]" THEN Result(TRUE, Arr(more), d + 1)
                 ELSE IF s[d] = "," THEN ParseElements(s, d + 1, more)
                 ELSE Failed

\* json.loads(s): [ok |-> TRUE, v |-> value], or ok = FALSE when it raises
JsonLoads(s) ==
    LET r == ParseValue(s, 1)
    IN  IF r.ok /\ SkipWs(s, r.p) > Len(s)
        THEN [ok |-> TRUE, v |-> r.v]
        ELSE [ok |-> FALSE, v |-> Null]

(***************************************************************************)
(* Text of integers (str(int)) and of literals as a page carries them.     *)
(***************************************************************************)
DigitChar(d) ==
    CASE d = 0 -> "0" [] d = 1 -> "1" [] d = 2 -> "2" [] d = 3 -> "3"
      [] d = 4 -> "4" [] d = 5 -> "5" [] d = 6 -> "6" [] d = 7 -> "7"
      [] d = 8 -> "8" [] d = 9 -> "9"

RECURSIVE NatToChars(_)
NatToChars(n) ==
    IF n < 10 THEN <<DigitChar(n)>>
    ELSE NatToChars(n \div 10) \o <<DigitChar(n % 10)>>

\* str(n) of an integer
IntToChars(n) == IF n < 0 THEN <<"-">> \o NatToChars(0 - n) ELSE NatToChars(n)

\* How a page writes a literal: js = TRUE is the JavaScript form (bare keys,
\* single-quoted strings), js = FALSE strict JSON; sep is the spacing around
\* the colon of a member; tc puts a comma before every closing } and ] of a
\* non-empty object or array (JavaScript form only).
Styles == [sep : {"tight", "after", "before"}, tc : BOOLEAN]

Colon(st) ==
    CASE st.sep = "tight"  -> <<":">>
      [] st.sep = "after"  -> <<":", " ">>
      [] st.sep = "before" -> <<" ", ":", " ">>

Comma(st) == IF st.sep = "tight" THEN <<",">> ELSE <<",", " ">>

RECURSIVE Render(_, _, _)
RECURSIVE RenderElements(_, _, _, _)
RECURSIVE RenderMembers(_, _, _, _)

Render(v, js, st) ==
    LET q == IF js THEN <<"'">> ELSE <<"\"">>
        last == IF js /\ st.tc THEN <<",">> ELSE <<>>
    IN  CASE v.t = "num"   -> IntToChars(v.n)
          [] v.t = "str"   -> q \o v.s \o q
          [] v.t = "true"  -> <<"t", "r", "u", "e">>
          [] v.t = "false" -> <<"f", "a", "l", "s", "e">>
          [] v.t = "null"  -> <<"n", "u", "l", "l">>
          [] v.t = "arr"   ->
                IF v.a = <<>> THEN <<"[", "]">>
                ELSE <<"[">> \o RenderElements(v.a, 1, js, st) \o last
                         \o <<"]">>
          [] v.t = "obj"   ->
                IF v.o = <<>> THEN <<"{", "}">>
                ELSE <<"{">> \o RenderMembers(v.o, 1, js, st) \o last
                         \o <<"}">>

RenderElements(a, i, js, st) ==
    IF i = Len(a) THEN Render(a[i], js, st)
    ELSE Render(a[i], js, st) \o Comma(st) \o RenderElements(a, i + 1, js, st)

RenderMembers(o, i, js, st) ==
    LET key == IF js THEN o[i].k ELSE <<"\"">> \o o[i].k \o <<"\"">>
        one == key \o Colon(st) \o Render(o[i].v, js, st)
    IN  IF i = Len(o) THEN one
        ELSE one \o Comma(st) \o RenderMembers(o, i + 1, js, st)

\* the literal as the page's script writes it
RenderJS(v, st) == Render(v, TRUE, st)

\* the equivalent properly-quoted literal
RenderJSON(v, st) == Render(v, FALSE, [st EXCEPT !.tc = FALSE])

(***************************************************************************)
(* Bounded literals for the normalizer: objects of at most MaxMembers      *)
(* members with distinct keys (an identifier, a numeric string, a longer   *)
(* identifier) whose values are numbers, booleans, strings, arrays of      *)
(* arrays and nested objects.                                              *)
(***************************************************************************)
MaxMembers == 2

KeyTexts == {<<"a">>, <<"7">>, <<"i", "d">>}

MemberValues ==
    { Num(1050), True, Str(<<"a", ":", "b">>), Str(<<",", "]">>), Arr(<<>>),
      Arr(<<Arr(<<Num(1), Num(1050)>>), Arr(<<Num(2), Num(5)>>)>>),
      Obj(<<Member(<<"7">>, Str(<<"x">>))>>) }

MemberSeqs(n) ==
    { m \in [1..n -> [k : KeyTexts, v : MemberValues]] :
        \A i, j \in 1..n : i # j => m[i].k # m[j].k }

Literals == { Obj(m) : m \in UNION { MemberSeqs(n) : n \in 0..MaxMembers } }

(***************************************************************************)
(* Pages.  A page is a sequence of tokens: the characters of the literals  *)
(* and of the whitespace, and one token for each fixed piece of text the   *)
(* regular expressions of lines 23, 34, 56 and 77 look for.                *)
(***************************************************************************)
ChartName == "VGPC.chart_data"
VolumeName == "VGPC.volume_data"
ProductName == "VGPC.product"

\* the first index >= i where token tok stands; 0 when there is none
FirstIndex(s, i, tok) ==
    Min({ j \in i..Len(s) : s[j] = tok } \cup {Len(s) + 1}) % (Len(s) + 1)

\* the first index >= i of a } that a ; follows; 0 when there is none
FirstClose(s, i) ==
    Min({ j \in i..(Len(s) - 1) : s[j] = "}" /\ s[j + 1] = ";" }
            \cup {Len(s) + 1}) % (Len(s) + 1)

NoMatch == [ok |-> FALSE, from |-> 0, to |-> 0]

\* NAME\s*=\s*({[\s\S]*?}); matched at index j: the span of group 1
AssignAt(s, j, name) ==
    IF s[j] # name THEN NoMatch
    ELSE LET a == SkipWs(s, j + 1)
         IN  IF a > Len(s) \/ s[a] # "=" THEN NoMatch
             ELSE LET b == SkipWs(s, a + 1)
                  IN  IF b > Len(s) \/ s[b] # "{" THEN NoMatch
                      ELSE LET c == FirstClose(s, b + 1)
                           IN  IF c = 0 THEN NoMatch
                               ELSE [ok |-> TRUE, from |-> b, to |-> c]

\* re.search(r'NAME\s*=\s*({[\s\S]*?});', s) looking from index j on: the
\* leftmost match
SearchFrom(s, j, name) ==
    LET at == { i \in j..Len(s) : s[i] = name /\ AssignAt(s, i, name).ok }
    IN  IF at = {} THEN NoMatch ELSE AssignAt(s, Min(at), name)

\* re.search of an assignment: [ok, raw], raw being group(1)
SearchAssign(s, name) ==
    LET m == SearchFrom(s, 1, name)
    IN  [ok |-> m.ok, raw |-> IF m.ok THEN SubSeq(s, m.from, m.to) ELSE <<>>]

\* Where line 23 can match from the <script> at index i: the first
\* chart_data assignment after the tag and the first </script> after it
\* (0 when one of them is missing).
ScriptEnd(doc, i) ==
    LET m == SearchFrom(doc, i + 1, ChartName)
    IN  IF m.ok THEN FirstIndex(doc, m.to + 2, "</script>") ELSE 0

\* line 23 looking from index i on: the leftmost <script> after which a
\* chart_data assignment and then a </script> follow; group(1) runs from the
\* tag to that </script>
ScriptFrom(doc, i) ==
    LET at == { j \in i..Len(doc) :
                  doc[j] = "<script>" /\ ScriptEnd(doc, j) # 0 }
    IN  IF at = {} THEN [ok |-> FALSE, content |-> <<>>]
        ELSE [ok |-> TRUE,
              content |-> SubSeq(doc, Min(at) + 1,
                                 ScriptEnd(doc, Min(at)) - 1)]

\* a search that takes the first script block, whatever it holds
SearchAnyScript(doc) ==
    LET i == FirstIndex(doc, 1, "<script>")
        j == IF i = 0 THEN 0 ELSE FirstIndex(doc, i + 1, "</script>")
    IN  IF j = 0 THEN [ok |-> FALSE, content |-> <<>>]
        ELSE [ok |-> TRUE, content |-> SubSeq(doc, i + 1, j - 1)]

\* script_match and script_content of lines 23-30
SearchScript(doc) == ScriptFrom(doc, 1)

(***************************************************************************)
(* The pages the site may return.                                          *)
(***************************************************************************)
Pair(ts, n) == Arr(<<Num(ts), Num(n)>>)

Used == <<"u", "s", "e", "d">>
New == <<"n", "e", "w">>

ChartTwo ==
    Obj(<<Member(Used, Arr(<<Pair(86400000, 1050)>>)),
          Member(New, Arr(<<Pair(0, 5), Pair(172800000, 1999)>>))>>)

ChartOne ==
    Obj(<<Member(Used, Arr(<<Pair(259200000, 1005), Pair(345600000, 0)>>)),
          Member(New, Arr(<<>>))>>)

VolumeOne ==
    Obj(<<Member(<<"v", "o", "l", "u", "m", "e">>,
                 Arr(<<Pair(86400000, 42)>>))>>)

ProductOne ==
    Obj(<<Member(<<"i", "d">>, Num(7)),
          Member(<<"n", "a", "m", "e">>, Str(<<"x">>)),
          Member(<<"n", "e", "w">>, True)>>)

ProductUrl ==
    Obj(<<Member(<<"i", "d">>, Num(7)),
          Member(<<"u", "r", "l">>, Str(<<"a", ":", "b">>))>>)

Plain == [sep |-> "after", tc |-> FALSE]
Trailing == [sep |-> "after", tc |-> TRUE]

\* the chart literals: two conditions, with and without trailing commas
\* (json.loads raises on the one with them)
ChartLiterals ==
    { RenderJS(ChartTwo, Plain), RenderJS(ChartTwo, Trailing) }

Assign(name, raw) == <<name, " ", "=", " ">> \o raw \o <<";", "\n">>

\* the volume literals: decodable; with trailing commas (json.loads raises)
VolumeLiterals ==
    { RenderJS(VolumeOne, Plain), RenderJS(VolumeOne, Trailing) }

\* the product literals: decodable, with trailing commas; a string value
\* that holds a colon (json.loads raises)
ProductLiterals ==
    { RenderJS(ProductOne, Trailing), RenderJS(ProductUrl, Plain) }

Document(body) == <<"<html>">> \o body \o <<"</html>">>

\* a page whose one script block assigns the three literals
Page(c, v, p) ==
    Document(<<"<script>">> \o Assign(ChartName, c) \o Assign(VolumeName, v)
                 \o Assign(ProductName, p) \o <<"</script>">>)

\* pages with a script block holding the chart_data assignment: the three
\* assignments; a chart with an empty list and nothing else; the empty
\* mapping as chart
ChartPages ==
    { Page(c, v, p) :
        c \in ChartLiterals, v \in VolumeLiterals, p \in ProductLiterals }
    \cup
    { Document(<<"<script>">>
                   \o Assign(ChartName, RenderJS(ChartOne, Plain))
                   \o <<"</script>">>),
      Page(RenderJS(EmptyMap, Plain), RenderJS(VolumeOne, Plain),
           RenderJS(ProductOne, Trailing)) }

\* pages without one: no script at all, and a script block that assigns
\* volume_data and product only
OtherPages ==
    { Document(<<"n", "o", "t", " ", "f", "o", "u", "n", "d">>),
      Document(<<"<script>">>
                   \o Assign(VolumeName, RenderJS(VolumeOne, Plain))
                   \o Assign(ProductName, RenderJS(ProductOne, Trailing))
                   \o <<"</script>">>) }

Pages == ChartPages \cup OtherPages

(***************************************************************************)
(* Formatting of the writer.                                               *)
(***************************************************************************)
\* the zone datetime.fromtimestamp converts to: UTC
LocalOffsetSeconds == 0 * 3600

Pad2(n) == <<DigitChar(n \div 10), DigitChar(n % 10)>>

Pad4(n) == Pad2(n \div 100) \o Pad2(n % 100)

\* the calendar date of a day counted from 1970-01-01 (proleptic Gregorian)
CivilDate(days) ==
    LET z == days + 719468
        era == z \div 146097
        doe == z - era * 146097
        yoe == (doe - doe \div 1460 + doe \div 36524 - doe \div 146096) \div 365
        doy == doe - (365 * yoe + yoe \div 4 - yoe \div 100)
        mp == (5 * doy + 2) \div 153
        d == doy - (153 * mp + 2) \div 5 + 1
        m == IF mp < 10 THEN mp + 3 ELSE mp - 9
        y == yoe + era * 400 + (IF m <= 2 THEN 1 ELSE 0)
    IN  [y |-> y, m |-> m, d |-> d]

\* datetime.fromtimestamp(ms/1000).strftime('%Y-%m-%d')
FormatDate(ms) ==
    LET c == CivilDate((ms \div 1000 + LocalOffsetSeconds) \div 86400)
    IN  Pad4(c.y) \o <<"-">> \o Pad2(c.m) \o <<"-">> \o Pad2(c.d)

\* a price that drops the zero padding of the cents
FormatPriceUnpadded(cents) ==
    LET a == IF cents < 0 THEN 0 - cents ELSE cents
        body == NatToChars(a \div 100) \o <<".">> \o NatToChars(a % 100)
    IN  IF cents < 0 THEN <<"-">> \o body ELSE body

\* f"{cents/100:.2f}" of an integer
FormatPrice(cents) ==
    LET a == IF cents < 0 THEN 0 - cents ELSE cents
        body == NatToChars(a \div 100) \o <<".">> \o Pad2(a % 100)
    IN  IF cents < 0 THEN <<"-">> \o body ELSE body

RECURSIVE Spaces(_)
Spaces(n) == IF n = 0 THEN <<>> ELSE <<" ">> \o Spaces(n - 1)

RECURSIVE Dump(_, _)
RECURSIVE DumpElements(_, _, _)
RECURSIVE DumpMembers(_, _, _)

\* json.dump(v, f, indent=2) at nesting depth
Dump(v, depth) ==
    CASE v.t = "num"   -> IntToChars(v.n)
      [] v.t = "str"   -> <<"\"">> \o v.s \o <<"\"">>
      [] v.t = "true"  -> <<"t", "r", "u", "e">>
      [] v.t = "false" -> <<"f", "a", "l", "s", "e">>
      [] v.t = "null"  -> <<"n", "u", "l", "l">>
      [] v.t = "arr"   ->
            IF v.a = <<>> THEN <<"[", "]">>
            ELSE <<"[">> \o DumpElements(v.a, 1, depth + 1)
                     \o <<"\n">> \o Spaces(2 * depth) \o <<"]">>
      [] v.t = "obj"   ->
            IF v.o = <<>> THEN <<"{", "}">>
            ELSE <<"{">> \o DumpMembers(v.o, 1, depth + 1)
                     \o <<"\n">> \o Spaces(2 * depth) \o <<"}">>

DumpElements(a, i, depth) ==
    LET one == <<"\n">> \o Spaces(2 * depth) \o Dump(a[i], depth)
    IN  IF i = Len(a) THEN one
        ELSE one \o <<",">> \o DumpElements(a, i + 1, depth)

DumpMembers(o, i, depth) ==
    LET one == <<"\n">> \o Spaces(2 * depth) \o <<"\"">> \o o[i].k
                   \o <<"\"", ":", " ">> \o Dump(o[i].v, depth)
    IN  IF i = Len(o) THEN one
        ELSE one \o <<",">> \o DumpMembers(o, i + 1, depth)

(***************************************************************************)
(* Files.  A file name is <<fixed text, condition>>; a file's content is   *)
(* a sequence of rows, a row a sequence of cells, a cell a text.  A        *)
(* directory is a function from the names it holds to their contents.      *)
(***************************************************************************)
PageFile == <<"page.html", <<>>>>
PriceFile(condition) == <<"price-history-<condition>.csv", condition>>
VolumeFile == <<"volume-data.csv", <<>>>>
MetadataFile == <<"product-metadata.json", <<>>>>
DebugChartFile == <<"debug-chart-data.txt", <<>>>>
DebugVolumeFile == <<"debug-volume-data.txt", <<>>>>
DebugOriginalFile == <<"debug-product-data-original.txt", <<>>>>
DebugProcessedFile == <<"debug-product-data-processed.txt", <<>>>>

EmptyDir == [n \in {} |-> <<>>]

Exists(dir, name) == name \in DOMAIN dir

Write(name, content) == [name |-> name, content |-> content]

\* f.write(text) of a whole text
TextContent(text) == <<<<text>>>>

\* a file opened with 'a': what it held stays in front of what is written
PutAppended(dir, w) ==
    [n \in DOMAIN dir \cup {w.name} |->
        IF n = w.name
        THEN (IF Exists(dir, n) THEN dir[n] ELSE <<>>) \o w.content
        ELSE dir[n]]

\* with open(name, 'w') as f: the rows written
\* the file holds what this write wrote and nothing else
PutFile(dir, w) ==
    [n \in DOMAIN dir \cup {w.name} |->
        IF n = w.name THEN w.content ELSE dir[n]]

\* open(name, 'w') succeeded and the writing raised: the file is empty
Truncate(dir, name) ==
    [n \in DOMAIN dir \cup {name} |-> IF n = name THEN <<>> ELSE dir[n]]

RECURSIVE PutAll(_, _, _, _)
\* the writes ws[i..n] in order
PutAll(dir, ws, i, n) ==
    IF i > n THEN dir ELSE PutAll(PutFile(dir, ws[i]), ws, i + 1, n)

Names(ws, i, n) == { ws[x].name : x \in i..n }

(***************************************************************************)
(* extract_price_history_data.                                             *)
(***************************************************************************)
\* {} as the callers read it: .get() of each field gives None
NoResult == [chartData |-> Null, volumeData |-> Null, productData |-> Null]

Msg(text, detail) == <<text, detail>>

Block(v, msgs, dbg) == [v |-> v, log |-> msgs, dbg |-> dbg]

\* lines 33-52
ChartBlock(script) ==
    LET m == SearchAssign(script, ChartName)
        r == JsonLoads(NormalizeChart(m.raw))
    IN  IF ~m.ok THEN Block(EmptyMap, {}, <<>>)
        ELSE IF r.ok
        THEN Block(r.v, {Msg("Successfully extracted chart data", <<>>)}, <<>>)
        ELSE Block(EmptyMap, {Msg("Error parsing chart data", <<>>)},
                   <<Write(DebugChartFile, TextContent(m.raw))>>)

\* lines 54-73
VolumeBlock(script) ==
    LET m == SearchAssign(script, VolumeName)
        r == JsonLoads(NormalizeVolume(m.raw))
    IN  IF ~m.ok THEN Block(EmptyMap, {}, <<>>)
        ELSE IF r.ok
        THEN Block(r.v, {Msg("Successfully extracted volume data", <<>>)},
                   <<>>)
        ELSE Block(EmptyMap, {Msg("Error parsing volume data", <<>>)},
                   <<Write(DebugVolumeFile, TextContent(m.raw))>>)

\* lines 75-114
ProductBlock(script) ==
    LET m == SearchAssign(script, ProductName)
        text == NormalizeProduct(m.raw)
        r == JsonLoads(text)
        dbg == <<Write(DebugOriginalFile, TextContent(Strip(m.raw))),
                 Write(DebugProcessedFile, TextContent(text))>>
    IN  IF ~m.ok THEN Block(EmptyMap, {}, <<>>)
        ELSE IF r.ok
        THEN Block(r.v, {Msg("Successfully extracted product data", <<>>)},
                   dbg)
        ELSE Block(EmptyMap, {Msg("Error parsing product data", <<>>)}, dbg)

\* an extraction that gives up at the first literal json.loads rejects
ExtractionAbortsOnError(doc) ==
    LET sm == SearchScript(doc)
        c == ChartBlock(sm.content)
        v == VolumeBlock(sm.content)
        p == ProductBlock(sm.content)
        bad(b) == \E x \in b.log :
                      x[1] \in {"Error parsing chart data",
                                "Error parsing volume data",
                                "Error parsing product data"}
    IN  IF ~sm.ok
        THEN [data |-> NoResult,
              log |-> {Msg("No script tag with price history data found in HTML", <<>>)},
              dbg |-> <<>>]
        ELSE IF bad(c)
        THEN [data |-> NoResult, log |-> c.log, dbg |-> c.dbg]
        ELSE IF bad(v)
        THEN [data |-> NoResult, log |-> c.log \cup v.log,
              dbg |-> c.dbg \o v.dbg]
        ELSE IF bad(p)
        THEN [data |-> NoResult, log |-> c.log \cup v.log \cup p.log,
              dbg |-> c.dbg \o v.dbg \o p.dbg]
        ELSE [data |-> [chartData |-> c.v, volumeData |-> v.v,
                        productData |-> p.v],
              log |-> c.log \cup v.log \cup p.log,
              dbg |-> c.dbg \o v.dbg \o p.dbg]

\* lines 21-120: the result, what is printed, and the debug writes in order
Extraction(doc) ==
    LET sm == SearchScript(doc)
        c == ChartBlock(sm.content)
        v == VolumeBlock(sm.content)
        p == ProductBlock(sm.content)
    IN  IF ~sm.ok
        THEN [data |-> NoResult,
              log |-> {Msg("No script tag with price history data found in HTML", <<>>)},
              dbg |-> <<>>]
        ELSE [data |-> [chartData |-> c.v, volumeData |-> v.v,
                        productData |-> p.v],
              log |-> c.log \cup v.log \cup p.log,
              dbg |-> c.dbg \o v.dbg \o p.dbg]

\* extract_price_history_data on each page the site may return, tabulated
ExtractionTable == { [page |-> p, result |-> Extraction(p)] : p \in Pages }

ExtractionOf(doc) == (CHOOSE e \in ExtractionTable : e.page = doc).result

(***************************************************************************)
(* save_price_history_to_csv.                                              *)
(***************************************************************************)
Cell(text) == text

DateHeader == <<"D", "a", "t", "e">>
PriceHeader == <<"P", "r", "i", "c", "e">>
VolumeHeader == <<"V", "o", "l", "u", "m", "e">>
VolumeKey == <<"v", "o", "l", "u", "m", "e">>

\* lines 196-201
PriceRows(entries) ==
    <<<<DateHeader, PriceHeader>>>> \o
    [i \in 1..Len(entries) |->
        <<FormatDate(entries[i].a[1].n), FormatPrice(entries[i].a[2].n)>>]

\* lines 211-216
VolumeRows(entries) ==
    <<<<DateHeader, VolumeHeader>>>> \o
    [i \in 1..Len(entries) |->
        <<FormatDate(entries[i].a[1].n), IntToChars(entries[i].a[2].n)>>]

\* lines 187-203: one file for each condition whose entries are not empty
ChartWrites(chart) ==
    IF ~Truthy(chart) THEN <<>>
    ELSE LET kept == SelectSeq(chart.o, LAMBDA m : Truthy(m.v))
         IN  [i \in 1..Len(kept) |->
                 Write(PriceFile(kept[i].k), PriceRows(kept[i].v.a))]

\* lines 206-218
VolumeWrites(volume) ==
    IF Truthy(volume) /\ HasKey(volume.o, VolumeKey)
    THEN <<Write(VolumeFile, VolumeRows(Get(volume.o, VolumeKey).a))>>
    ELSE <<>>

\* a writer that dumps the product mapping even when it is empty
MetadataWritesAlways(product) ==
    <<Write(MetadataFile, TextContent(Dump(product, 0)))>>

\* lines 221-226
MetadataWrites(product) ==
    IF Truthy(product)
    THEN <<Write(MetadataFile, TextContent(Dump(product, 0)))>>
    ELSE <<>>

\* the files save_price_history_to_csv opens, in order
DueWrites(data) ==
    ChartWrites(data.chartData) \o VolumeWrites(data.volumeData)
        \o MetadataWrites(data.productData)

\* What an I/O error does to the file being written: "open" (open raised,
\* the file is as it was) or "write" (opened, then the writing raised).
FaultKinds == {"open", "write"}

Damage(dir, name, kind) == IF kind = "write" THEN Truncate(dir, name) ELSE dir

\* a writer with one handler for each file: the writes after the failing
\* one are still made
SaveContinuesAfterError(dir, ws, k, kind) ==
    IF k = 0
    THEN [dir |-> PutAll(dir, ws, 1, Len(ws)),
          attempted |-> Names(ws, 1, Len(ws)),
          written |-> Names(ws, 1, Len(ws)),
          log |-> {Msg("All data saved successfully!", <<>>)}]
    ELSE [dir |-> PutAll(Damage(PutAll(dir, ws, 1, k - 1), ws[k].name, kind),
                         ws, k + 1, Len(ws)),
          attempted |-> Names(ws, 1, Len(ws)),
          written |-> Names(ws, 1, Len(ws)) \ {ws[k].name},
          log |-> {Msg("Error saving data", <<>>)}]

\* lines 177-230 on the writes ws when the k-th of them raises (k = 0: none
\* does): the handler of line 229 ends the function at the first error
SaveFiles(dir, ws, k, kind) ==
    IF k = 0
    THEN [dir |-> PutAll(dir, ws, 1, Len(ws)),
          attempted |-> Names(ws, 1, Len(ws)),
          written |-> Names(ws, 1, Len(ws)),
          log |-> {Msg("All data saved successfully!", <<>>)}]
    ELSE [dir |-> Damage(PutAll(dir, ws, 1, k - 1), ws[k].name, kind),
          attempted |-> Names(ws, 1, k),
          written |-> Names(ws, 1, k - 1),
          log |-> {Msg("Error saving data", <<>>)}]

(***************************************************************************)
(* fetch_url.                                                              *)
(***************************************************************************)
\* what the network does to a call of fetch_url
NetOutcomes == {"post raises", "get raises", "responds"}

\* a fetch_url that swallows the error and returns an empty page
FetchSwallowsError(withLogin, outcome, doc) ==
    [raised |-> FALSE,
     requests |-> IF withLogin
                  THEN (IF outcome = "post raises" THEN <<"POST">>
                        ELSE <<"POST", "GET">>)
                  ELSE <<"GET">>,
     text |-> IF outcome = "responds" THEN doc ELSE <<>>,
     log |-> IF outcome = "responds" THEN {}
             ELSE {Msg("Error fetching", <<>>)}]

\* lines 137-167: the requests sent, and the text returned or the error
\* logged and raised again
FetchUrl(withLogin, outcome, doc) ==
    [raised |-> outcome # "responds",
     requests |-> IF withLogin
                  THEN (IF outcome = "post raises" THEN <<"POST">>
                        ELSE <<"POST", "GET">>)
                  ELSE <<"GET">>,
     text |-> IF outcome = "responds" THEN doc ELSE <<>>,
     log |-> IF outcome = "responds" THEN {}
             ELSE {Msg("Error fetching", <<>>)}]

(***************************************************************************)
(* extract_price_history, run MaxRuns times over one output directory.     *)
(***************************************************************************)
\* runs over the same output directory
MaxRuns == 2

\* I/O errors of one run
MaxFaults == 1

VARIABLES
    lit,         \* the literal the normalizer works on (SpecNorm)
    pc,          \* where extract_price_history stands
    login,       \* whether an email and a password are given
    net,         \* what the network did to this run's fetch_url
    html,        \* the text fetch_url returned
    price_data,  \* what extract_price_history_data returned
    outdir,      \* the output directory
    cwd,         \* the working directory (the debug files)
    log,         \* what this run printed
    requests,    \* the HTTP requests this run sent, in order
    calls,       \* the functions this run called, in order
    attempted,   \* the output files this run opened
    written,     \* the output and debug files this run wrote in full
    before,      \* the output directory when this run started
    runs,        \* the runs started
    faults,      \* the I/O errors of this run
    status       \* how extract_price_history ended: "returned" or "raised"

vars == <<lit, pc, login, net, html, price_data, outdir, cwd, log, requests, calls,
          attempted, written, before, runs, faults, status>>

runVars == <<pc, login, net, html, price_data, outdir, cwd, log, requests, calls,
             attempted, written, before, runs, faults, status>>

NoLiteral ==
    [pc |-> "none", target |-> "chart", style |-> Plain, value |-> EmptyMap,
     raw |-> <<>>, text |-> <<>>, loaded |-> [ok |-> FALSE, v |-> Null]]

FreshRun ==
    /\ pc = "fetch"
    /\ net = "none"
    /\ html = <<>>
    /\ price_data = NoResult
    /\ log = {}
    /\ requests = <<>>
    /\ calls = <<>>
    /\ attempted = {}
    /\ written = {}
    /\ faults = 0
    /\ status = "running"

Init ==
    /\ lit = NoLiteral
    /\ login \in BOOLEAN
    /\ outdir = EmptyDir
    /\ cwd = EmptyDir
    /\ before = EmptyDir
    /\ runs = 1
    /\ FreshRun

\* line 256
NoDataIgnoresChart(data) == FALSE

NoDataFound(data) == ~Truthy(data.chartData)

\* lines 243-244 and, when fetch_url raises, 262-263
Fetch ==
    /\ pc = "fetch"
    /\ \E outcome \in NetOutcomes, text \in Pages :
          /\ outcome = "post raises" => login
          /\ outcome # "responds" => text = CHOOSE p \in Pages : TRUE
          /\ \E r \in {FetchUrl(login, outcome, text)} :
                 /\ net' = outcome
                 /\ requests' = r.requests
                 /\ html' = r.text
                 /\ calls' = Append(calls, "fetch_url")
                 /\ IF r.raised
                    THEN /\ log' = log \cup r.log
                               \cup {Msg("Error extracting price history", <<>>)}
                         /\ pc' = "done"
                         /\ status' = "returned"
                    ELSE /\ log' = log \cup r.log
                         /\ pc' = "page"
                         /\ status' = status
    /\ UNCHANGED <<lit, login, price_data, outdir, cwd, attempted, written,
                   before, runs, faults>>

\* lines 247-251 and, when the write raises, 262-263
SavePage ==
    /\ pc = "page"
    /\ \/ /\ outdir' = PutFile(outdir, Write(PageFile, TextContent(html)))
          /\ attempted' = attempted \cup {PageFile}
          /\ written' = written \cup {PageFile}
          /\ pc' = "extract"
          /\ UNCHANGED <<log, faults, status>>
       \/ /\ faults < MaxFaults
          /\ \E kind \in FaultKinds :
                outdir' = Damage(outdir, PageFile, kind)
          /\ attempted' = attempted \cup {PageFile}
          /\ faults' = faults + 1
          /\ log' = log \cup {Msg("Error extracting price history", <<>>)}
          /\ pc' = "done"
          /\ status' = "returned"
          /\ UNCHANGED written
    /\ UNCHANGED <<lit, login, net, html, price_data, cwd, requests, calls,
                   before, runs>>

RECURSIVE PutDebug(_, _, _, _)
\* the debug writes ws[i..] in order; those in failing raise and are passed
\* over (lines 51, 72, 87 and 108)
PutDebug(dir, ws, i, failing) ==
    IF i > Len(ws) THEN dir
    ELSE IF ws[i].name \in failing THEN PutDebug(dir, ws, i + 1, failing)
    ELSE PutDebug(PutFile(dir, ws[i]), ws, i + 1, failing)

\* lines 253-258: the call of extract_price_history_data and the test of
\* its result
Extract ==
    /\ pc = "extract"
    /\ \E r \in {ExtractionOf(html)} :
       LET all == Names(r.dbg, 1, Len(r.dbg))
       IN  /\ \E failing \in SUBSET all :
                 /\ faults + Cardinality(failing) <= MaxFaults
                 /\ cwd' = PutDebug(cwd, r.dbg, 1, failing)
                 /\ written' = written \cup (all \ failing)
                 /\ faults' = faults + Cardinality(failing)
           /\ price_data' = r.data
           /\ calls' = Append(calls, "extract_price_history_data")
           /\ IF NoDataFound(r.data)
              THEN /\ log' = log \cup r.log
                         \cup {Msg("No price history data found", <<>>)}
                   /\ pc' = "done"
                   /\ status' = "returned"
              ELSE /\ log' = log \cup r.log
                   /\ pc' = "save"
                   /\ status' = status
    /\ UNCHANGED <<lit, login, net, html, outdir, requests, attempted,
                   before, runs>>

\* lines 260-261: the call of save_price_history_to_csv
Save ==
    /\ pc = "save"
    /\ \E ws \in {DueWrites(price_data)} :
          \E k \in 0..Len(ws), kind \in FaultKinds :
              /\ k = 0 => kind = "open"
              /\ k # 0 => faults < MaxFaults
              /\ \E r \in {SaveFiles(outdir, ws, k, kind)} :
                     /\ outdir' = r.dir
                     /\ attempted' = attempted \cup r.attempted
                     /\ written' = written \cup r.written
                     /\ log' = log \cup r.log
                     /\ faults' = IF k = 0 THEN faults ELSE faults + 1
    /\ calls' = Append(calls, "save_price_history_to_csv")
    /\ pc' = "done"
    /\ status' = "returned"
    /\ UNCHANGED <<lit, login, net, html, price_data, cwd, requests, before,
                   runs>>

\* the tool is started again with the same arguments
Rerun ==
    /\ pc = "done"
    /\ runs < MaxRuns
    /\ runs' = runs + 1
    /\ before' = outdir
    /\ pc' = "fetch"
    /\ net' = "none"
    /\ html' = <<>>
    /\ price_data' = NoResult
    /\ log' = {}
    /\ requests' = <<>>
    /\ calls' = <<>>
    /\ attempted' = {}
    /\ written' = {}
    /\ faults' = 0
    /\ status' = "running"
    /\ UNCHANGED <<lit, login, outdir, cwd>>

Next == Fetch \/ SavePage \/ Extract \/ Save \/ Rerun

Spec == Init /\ [][Next]_vars

(***************************************************************************)
(* The normalizer on one captured literal at a time.                       *)
(***************************************************************************)
InitNorm ==
    /\ \E target \in Targets, st \in Styles, v \in Literals :
        lit = [pc |-> "captured", target |-> target, style |-> st,
               value |-> v, raw |-> RenderJS(v, st), text |-> <<>>,
               loaded |-> [ok |-> FALSE, v |-> Null]]
    /\ login = FALSE
    /\ outdir = EmptyDir
    /\ cwd = EmptyDir
    /\ before = EmptyDir
    /\ runs = 1
    /\ FreshRun

\* the re.sub / replace lines of the literal's block
NormalizeLiteral ==
    /\ lit.pc = "captured"
    /\ lit' = [lit EXCEPT !.pc = "normalized",
                          !.text = Normalize(lit.target, lit.raw)]
    /\ UNCHANGED runVars

\* json.loads of the normalized text
LoadLiteral ==
    /\ lit.pc = "normalized"
    /\ lit' = [lit EXCEPT !.pc = "loaded", !.loaded = JsonLoads(lit.text)]
    /\ UNCHANGED runVars

NextNorm == NormalizeLiteral \/ LoadLiteral

SpecNorm == InitNorm /\ [][NextNorm]_vars

(***************************************************************************)
(* Properties of the normalizer (SpecNorm).                                *)
(***************************************************************************)
Loaded == lit.pc = "loaded"

\* json.loads of the literal written as JSON: keys and strings in double
\* quotes, no trailing comma
Reference == JsonLoads(RenderJSON(lit.value, lit.style))

\* the literal as captured but for its trailing commas, normalized and parsed
WithoutTrailingCommas ==
    JsonLoads(Normalize(lit.target,
                        RenderJS(lit.value, [lit.style EXCEPT !.tc = FALSE])))

\* C1, as the specification states it: for each of the three literals, a
\* literal that is well formed but for its bare keys and single-quoted
\* strings (no trailing comma, each key immediately followed by its colon)
\* is normalized and parsed to exactly the mapping that json.loads gives for
\* the same literal properly quoted; no value is altered.
C1_NormalizeKeepsValues ==
    (Loaded /\ ~lit.style.tc /\ lit.style.sep # "before")
        => lit.loaded = Reference

\* C2, as the code has it: the product literal with a trailing comma before
\* each closing } and ] parses to what it parses to without them whenever
\* that parses; a chart_data or volume_data literal with such a comma is
\* rejected by json.loads.
C2_ProductTrailingCommas ==
    (Loaded /\ lit.style.tc)
        => IF lit.target = "product"
           THEN WithoutTrailingCommas.ok => lit.loaded = WithoutTrailingCommas
           ELSE lit.value.o # <<>> => ~lit.loaded.ok

\* C2, the case at work: a product literal with trailing commas, nested
\* ones too, is parsed to the mapping it denotes
C2_Witness ==
    /\ Loaded
    /\ lit.style.tc
    /\ lit.target = "product"
    /\ Len(lit.value.o) = 2
    /\ \E i \in 1..Len(lit.value.o) :
          lit.value.o[i].v.t = "arr" /\ lit.value.o[i].v.a # <<>>
    /\ lit.loaded = [ok |-> TRUE, v |-> lit.value]
    /\ lit.loaded = WithoutTrailingCommas

\* C2, as the specification states it: for each of the three literals, a
\* literal that parses without its trailing commas parses to the same
\* mapping with them.
C2_AnyLiteralTrailingCommas ==
    (Loaded /\ lit.style.tc)
        => (WithoutTrailingCommas.ok => lit.loaded = WithoutTrailingCommas)

(***************************************************************************)
(* Properties of a run (Spec).                                             *)
(***************************************************************************)
Logged(text) == Msg(text, <<>>) \in log

Called(f) == \E i \in 1..Len(calls) : calls[i] = f

Extracted == Called("extract_price_history_data")

Saved == Called("save_price_history_to_csv")

Count(seq, x) == Cardinality({ i \in 1..Len(seq) : seq[i] = x })

IsCsv(name) == name[1] \in {"price-history-<condition>.csv", "volume-data.csv"}

\* file name holds in dir what it held in old (or is in neither)
SameFile(dir, old, name) ==
    /\ Exists(dir, name) <=> Exists(old, name)
    /\ Exists(dir, name) => dir[name] = old[name]

\* the literals json.loads rejects after normalization
BadChart == { c \in ChartLiterals : ~JsonLoads(NormalizeChart(c)).ok }
BadVolume == { v \in VolumeLiterals : ~JsonLoads(NormalizeVolume(v)).ok }
BadProduct == { p \in ProductLiterals : ~JsonLoads(NormalizeProduct(p)).ok }

\* the result of the extraction on the page with these three literals
DataOf(c, v, p) == ExtractionOf(Page(c, v, p)).data

\* the pages with the three assignments: the literals of each, the product
\* literal as lines 81-102 leave it, and the results on the pages where one
\* literal is replaced by one that parses
PageParts ==
    { [page |-> Page(c, v, p), chart |-> c, volume |-> v, product |-> p,
       processed |-> TextContent(NormalizeProduct(p)),
       chartFixed |-> { DataOf(g, v, p) : g \in ChartLiterals \ BadChart },
       volumeFixed |-> { DataOf(c, g, p) : g \in VolumeLiterals \ BadVolume },
       productFixed |->
           { DataOf(c, v, g) : g \in ProductLiterals \ BadProduct }] :
        c \in ChartLiterals, v \in VolumeLiterals, p \in ProductLiterals }

ThreeLiteralPages == { x.page : x \in PageParts }

PartsOf(doc) == CHOOSE x \in PageParts : x.page = doc

AllFields == price_data.chartData.t = "obj"
             /\ price_data.volumeData.t = "obj"
             /\ price_data.productData.t = "obj"

\* C3: on a page with the three literals, a literal that json.loads rejects
\* has its error logged, its debug file written (unless that write itself
\* raised) with the literal's text, and its field empty; the extraction
\* goes on, and the other two fields are what they are on the page where
\* that literal is replaced by one that parses.
C3_LiteralsIndependent ==
    (Extracted /\ html \in ThreeLiteralPages) =>
        \A x \in {PartsOf(html)} :
            /\ AllFields
            /\ pc \in {"save", "done"}
            /\ x.chart \in BadChart =>
                 /\ Logged("Error parsing chart data")
                 /\ price_data.chartData = EmptyMap
                 /\ faults = 0 => DebugChartFile \in written
                 /\ DebugChartFile \in written =>
                        /\ Exists(cwd, DebugChartFile)
                        /\ cwd[DebugChartFile] = TextContent(x.chart)
                 /\ x.chartFixed # {}
                 /\ \A d \in x.chartFixed :
                        /\ price_data.volumeData = d.volumeData
                        /\ price_data.productData = d.productData
            /\ x.volume \in BadVolume =>
                 /\ Logged("Error parsing volume data")
                 /\ price_data.volumeData = EmptyMap
                 /\ faults = 0 => DebugVolumeFile \in written
                 /\ DebugVolumeFile \in written =>
                        /\ Exists(cwd, DebugVolumeFile)
                        /\ cwd[DebugVolumeFile] = TextContent(x.volume)
                 /\ x.volumeFixed # {}
                 /\ \A d \in x.volumeFixed :
                        /\ price_data.chartData = d.chartData
                        /\ price_data.productData = d.productData
            /\ x.product \in BadProduct =>
                 /\ Logged("Error parsing product data")
                 /\ price_data.productData = EmptyMap
                 /\ faults = 0 => DebugProcessedFile \in written
                 /\ DebugProcessedFile \in written =>
                        /\ Exists(cwd, DebugProcessedFile)
                        /\ cwd[DebugProcessedFile] = x.processed
                 /\ x.productFixed # {}
                 /\ \A d \in x.productFixed :
                        /\ price_data.chartData = d.chartData
                        /\ price_data.volumeData = d.volumeData

\* C3, the case at work: the volume literal is rejected, its debug file is
\* written, and chart and product are extracted all the same
C3_Witness ==
    /\ Extracted
    /\ html \in ThreeLiteralPages
    /\ PartsOf(html).volume \in BadVolume
    /\ PartsOf(html).chart \notin BadChart
    /\ PartsOf(html).product \notin BadProduct
    /\ DebugVolumeFile \in written
    /\ Truthy(price_data.chartData)
    /\ Truthy(price_data.productData)

C8_FetchErrorEndsRun ==
    (net \in {"post raises", "get raises"}) =>
        /\ Logged("Error fetching")
        /\ Logged("Error extracting price history")
        /\ Count(requests, "POST") <= 1
        /\ Count(requests, "GET") <= 1
        /\ net = "post raises" => Count(requests, "GET") = 0
        /\ calls = <<"fetch_url">>
        /\ attempted = {}
        /\ written = {}
        /\ outdir = before
        /\ pc = "done"
        /\ status = "returned"

\* C8, the case at work: the login POST of a second run raises; the page
\* of the first run is still the one in the directory
C8_Witness ==
    /\ net = "post raises"
    /\ requests = <<"POST">>
    /\ runs = 2
    /\ Exists(outdir, PageFile)
    /\ status = "returned"

\* a price text: digits, a point, two digits
TwoDecimals(text) ==
    /\ Len(text) >= 4
    /\ text[Len(text) - 2] = "."
    /\ \A i \in 1..Len(text) : i # Len(text) - 2 => text[i] \in Digit

\* the cents a price text stands for
CentsOf(text) ==
    100 * DigitsToInt(SubSeq(text, 1, Len(text) - 3))
        + DigitsToInt(SubSeq(text, Len(text) - 1, Len(text)))

AllDigits(text) == text # <<>> /\ \A i \in 1..Len(text) : text[i] \in Digit

\* C9: after a save without I/O error, each condition of chartData with a
\* non-empty list has its file price-history-<condition>.csv: the header
\* Date,Price and one row for each entry in order, the price being the cents
\* over 100 with exactly two decimals; a condition with an empty list has no
\* file opened; the price files written are those of the conditions; the
\* rows of volume-data.csv carry the volume as the integer it is.
C9_CsvRows ==
    (Saved /\ Logged("All data saved successfully!")) =>
        /\ \A i \in 1..Len(price_data.chartData.o) :
              LET m == price_data.chartData.o[i]
                  f == PriceFile(m.k)
              IN  IF m.v.a # <<>>
                  THEN /\ f \in written
                       /\ Exists(outdir, f)
                       /\ Len(outdir[f]) = Len(m.v.a) + 1
                       /\ outdir[f][1] = <<DateHeader, PriceHeader>>
                       /\ \A j \in 1..Len(m.v.a) :
                             LET row == outdir[f][j + 1]
                             IN  /\ Len(row) = 2
                                 /\ row[1] = FormatDate(m.v.a[j].a[1].n)
                                 /\ TwoDecimals(row[2])
                                 /\ CentsOf(row[2]) = m.v.a[j].a[2].n
                  ELSE /\ f \notin attempted
                       /\ SameFile(outdir, before, f)
        /\ \A f \in written :
              f[1] = "price-history-<condition>.csv"
                  => HasKey(price_data.chartData.o, f[2])
        /\ (Truthy(price_data.volumeData)
                /\ HasKey(price_data.volumeData.o, VolumeKey)) =>
              LET es == Get(price_data.volumeData.o, VolumeKey).a
              IN  /\ VolumeFile \in written
                  /\ Len(outdir[VolumeFile]) = Len(es) + 1
                  /\ outdir[VolumeFile][1] = <<DateHeader, VolumeHeader>>
                  /\ \A j \in 1..Len(es) :
                        LET row == outdir[VolumeFile][j + 1]
                        IN  /\ Len(row) = 2
                            /\ AllDigits(row[2])
                            /\ DigitsToInt(row[2]) = es[j].a[2].n

\* C9, the case at work: 1050 cents written as 10.50 and 5 cents as 0.05,
\* and the volume file written
C9_Witness ==
    /\ Saved
    /\ Logged("All data saved successfully!")
    /\ PriceFile(Used) \in written
    /\ PriceFile(New) \in written
    /\ VolumeFile \in written
    /\ outdir[PriceFile(Used)][2][2] = <<"1", "0", ".", "5", "0">>
    /\ outdir[PriceFile(New)][2][2] = <<"0", ".", "0", "5">>
    /\ outdir[VolumeFile][2][2] = <<"4", "2">>

\* C10: when the chartData of the result is empty, the run logs that no
\* data was found and ends without calling the writer: it opens no file but
\* page.html, every other file of the output directory is as it was before
\* the run, page.html holds the page, and the debug files written during
\* the extraction are in the working directory.
C10_NoChartNoWriter ==
    (Extracted /\ ~Truthy(price_data.chartData)) =>
        /\ Logged("No price history data found")
        /\ ~Saved
        /\ pc = "done"
        /\ status = "returned"
        /\ attempted = {PageFile}
        /\ \A f \in (DOMAIN outdir \cup DOMAIN before) \ {PageFile} :
               SameFile(outdir, before, f)
        /\ Exists(outdir, PageFile)
        /\ outdir[PageFile] = TextContent(html)
        /\ \A f \in written \ {PageFile} : Exists(cwd, f)

\* C10, the case at work: the chart literal is rejected while volume and
\* product are extracted; nothing but page.html is in the directory
C10_Witness ==
    /\ Extracted
    /\ Logged("Error parsing chart data")
    /\ price_data.chartData = EmptyMap
    /\ Truthy(price_data.volumeData)
    /\ Truthy(price_data.productData)
    /\ DOMAIN outdir = {PageFile}
    /\ DebugChartFile \in written
    /\ pc = "done"

\* the files the writer is to write for each result of the extraction
DueTable ==
    { [data |-> e.result.data, ws |-> DueWrites(e.result.data)] :
        e \in ExtractionTable }

\* the files the writer is to write for the result of this run, in order
Due == (CHOOSE d \in DueTable : d.data = price_data).ws

SaveFailed == Saved /\ Logged("Error saving data")

\* the writes of due before the k-th are in the directory as written
KeptBefore(due, k) ==
    \A i \in 1..(k - 1) :
        /\ due[i].name \in written
        /\ Exists(outdir, due[i].name)
        /\ outdir[due[i].name] = due[i].content

\* C4, as the code has it: when a write of save_price_history_to_csv raises,
\* the error is logged and the function ends there: the files before the
\* failing one are kept as written, the files after it in the order chart
\* CSVs, volume CSV, product metadata are not opened and are as they were
\* before the run, and extract_price_history returns.
C4_SaveStopsAtFirstError ==
    SaveFailed =>
        /\ pc = "done"
        /\ status = "returned"
        /\ \E due \in {Due} : \E k \in 1..Len(due) :
              /\ attempted = {PageFile} \cup Names(due, 1, k)
              /\ due[k].name \notin written
              /\ KeptBefore(due, k)
              /\ \A i \in (k + 1)..Len(due) :
                    /\ due[i].name \notin attempted
                    /\ SameFile(outdir, before, due[i].name)

\* C4, the case at work: of three or more files due, the second raises; the
\* first is written and the third is not opened
C4_Witness ==
    /\ SaveFailed
    /\ \E due \in {Due} :
          /\ Len(due) >= 3
          /\ attempted = {PageFile, due[1].name, due[2].name}
          /\ written \cap attempted = {PageFile, due[1].name}
          /\ ~Exists(outdir, due[3].name)

\* C4, as the specification states it: when a write raises, the error is
\* logged, the files before it are kept, and every write after it is still
\* attempted.
C4_LaterWritesAttempted ==
    SaveFailed =>
        \E due \in {Due} : \E k \in 1..Len(due) :
            /\ due[k].name \in attempted
            /\ due[k].name \notin written
            /\ KeptBefore(due, k)
            /\ \A i \in (k + 1)..Len(due) : due[i].name \in attempted

\* a run that ended with a chartData that is not empty and a product literal
\* that json.loads rejected, no I/O error having occurred
ProductLost ==
    /\ pc = "done"
    /\ Extracted
    /\ faults = 0
    /\ html \in ThreeLiteralPages
    /\ PartsOf(html).product \in BadProduct
    /\ Truthy(price_data.chartData)

\* the CSV files of the result are written and the product's debug files
\* are in the working directory
CsvAndDebugWritten ==
    /\ \A i \in 1..Len(price_data.chartData.o) :
          LET m == price_data.chartData.o[i]
          IN  m.v.a # <<>> =>
                 /\ PriceFile(m.k) \in written
                 /\ Exists(outdir, PriceFile(m.k))
                 /\ Len(outdir[PriceFile(m.k)]) = Len(m.v.a) + 1
    /\ (Truthy(price_data.volumeData)
            /\ HasKey(price_data.volumeData.o, VolumeKey)) =>
          /\ VolumeFile \in written
          /\ Exists(outdir, VolumeFile)
    /\ Exists(cwd, DebugOriginalFile)
    /\ Exists(cwd, DebugProcessedFile)
    /\ cwd[DebugProcessedFile] = PartsOf(html).processed

\* C6, as the code has it: in such a run the price-history CSV files (and
\* volume-data.csv when a volume list was extracted) are written, the debug
\* files of the product literal are in the working directory, and
\* product-metadata.json is not opened: it is absent if it was absent before
\* the run and otherwise holds what it held.
C6_MetadataNotWritten ==
    ProductLost =>
        /\ CsvAndDebugWritten
        /\ MetadataFile \notin attempted
        /\ SameFile(outdir, before, MetadataFile)

\* C6, the case at work: a second run loses the product literal while the
\* first run's product-metadata.json is in the directory
C6_Witness ==
    /\ ProductLost
    /\ runs = 2
    /\ Exists(before, MetadataFile)
    /\ Exists(outdir, MetadataFile)
    /\ PriceFile(Used) \in written

\* C6, as the specification states it: in such a run the CSV files are
\* written, a debug file of the product literal exists, and
\* product-metadata.json is absent from the output directory after the run.
C6_MetadataAbsent ==
    ProductLost =>
        /\ CsvAndDebugWritten
        /\ ~Exists(outdir, MetadataFile)

\* a run after the first that ended, its page fetched
RerunEnded == runs >= 2 /\ pc = "done" /\ net = "responds"

\* what this run writes to a file of the output directory, due being the
\* writes of the writer
Content(due, f) ==
    IF f = PageFile THEN TextContent(html)
    ELSE due[CHOOSE i \in 1..Len(due) : due[i].name = f].content

\* C7, as the code has it: after a later run over the same directory, every
\* output file the run wrote holds what this run wrote and nothing of the
\* earlier runs, and every file the run did not open is as the earlier runs
\* left it.
C7_WrittenFilesOverwritten ==
    RerunEnded =>
        /\ \A due \in {Due} : \A f \in written \cap attempted :
              /\ f = PageFile \/ \E i \in 1..Len(due) : due[i].name = f
              /\ Exists(outdir, f)
              /\ outdir[f] = Content(due, f)
        /\ \A f \in (DOMAIN outdir \cup DOMAIN before) \ attempted :
              SameFile(outdir, before, f)

\* C7, the case at work: the second run overwrites a file of the first with
\* other content and leaves another file of the first as it was
C7_Witness ==
    /\ RerunEnded
    /\ runs = 2
    /\ Saved
    /\ \E f \in written \cap DOMAIN before :
          f # PageFile /\ outdir[f] # before[f]
    /\ \E f \in DOMAIN outdir \ attempted : IsCsv(f)

\* the directory this run leaves when it starts from an empty one
FreshOutput ==
    LET d == PutFile(EmptyDir, Write(PageFile, TextContent(html)))
    IN  IF Saved THEN (LET due == Due IN PutAll(d, due, 1, Len(due))) ELSE d

\* C7, as the specification states it: after the second run, without I/O
\* error, the directory shows what the second run would have produced in an
\* empty directory.
C7_DirectoryAsFresh ==
    (RerunEnded /\ faults = 0) => outdir = FreshOutput

=============================================================================
